---- MODULE Spec2Model ----
(***************************************************************************)
(* A model of src/server.py: the three MCP handlers list_resources,        *)
(* read_table_resource and execute_sql, the configuration resolver         *)
(* get_db_config, and the PyMySQL objects (connection, cursor) they drive. *)
(*                                                                         *)
(* The handlers are "async def" functions that contain no await, so the    *)
(* event loop runs each call to completion before it starts the next one.  *)
(* A call is modelled step by step (pc is the handler's position), and a   *)
(* new call starts only when pc = "idle".                                  *)
(*                                                                         *)
(* Text.  A Python string that is assembled by str.join is kept as the     *)
(* sequence of its fragments: the separators "," and "\n" are fragments    *)
(* of their own and every other fragment is one stringified value.         *)
(* Text(frags) is the Python string itself.  SQL statements and the        *)
(* MYSQL_PORT value are sequences of one-character strings, because the    *)
(* code inspects them character by character (strip, upper, startswith,    *)
(* int).                                                                   *)
(***************************************************************************)
EXTENDS Integers, Sequences, FiniteSets, TLC

(***************************************************************************)
(* Bounds of the model.                                                    *)
(***************************************************************************)
\* number of calls the protocol runtime dispatches in one behaviour
MaxCalls == 2
\* largest number of rows the engine returns for one statement
MaxRows == 2
\* largest affected-row count the engine reports for a statement with no result set
MaxAffected == 2

(***************************************************************************)
(* Python values and their text forms.                                     *)
(***************************************************************************)
\* None, an int, a str: the values a PyMySQL row holds in this model
Null == [t |-> "null", i |-> 0, s |-> ""]
IntV(n) == [t |-> "int", i |-> n, s |-> ""]
TextV(x) == [t |-> "text", i |-> 0, s |-> x]

Digit == <<"0", "1", "2", "3", "4", "5", "6", "7", "8", "9">>

RECURSIVE NatToStr(_)
NatToStr(n) == IF n < 10 THEN Digit[n + 1]
               ELSE NatToStr(n \div 10) \o Digit[(n % 10) + 1]

\* str(n) for an int n
IntToStr(n) == IF n < 0 THEN "-" \o NatToStr(-n) ELSE NatToStr(n)

\* str(val): None gives "None", an int its decimal digits, a str itself
PyStr(val) == CASE val.t = "null" -> "None"
                [] val.t = "int" -> IntToStr(val.i)
                [] OTHER -> val.s

\* sep.join(items), items a sequence of fragment sequences, as fragments
RECURSIVE Join(_, _)
Join(sep, items) ==
    IF Len(items) = 0 THEN <<>>
    ELSE IF Len(items) = 1 THEN items[1]
    ELSE items[1] \o <<sep>> \o Join(sep, Tail(items))

\* the Python string a fragment sequence stands for
RECURSIVE Text(_)
Text(frags) == IF Len(frags) = 0 THEN "" ELSE frags[1] \o Text(Tail(frags))

\* each item of a sequence of strings as a one-fragment text
Each(items) == [k \in 1..Len(items) |-> <<items[k]>>]

(***************************************************************************)
(* Characters: str.strip, str.upper, str.startswith, int().                *)
(***************************************************************************)
Whitespace == {" ", "\t", "\n", "\r", "\f"}

LowerCase == <<"a", "b", "c", "d", "e", "f", "g", "h", "i", "j", "k", "l", "m",
               "n", "o", "p", "q", "r", "s", "t", "u", "v", "w", "x", "y", "z">>
UpperCase == <<"A", "B", "C", "D", "E", "F", "G", "H", "I", "J", "K", "L", "M",
               "N", "O", "P", "Q", "R", "S", "T", "U", "V", "W", "X", "Y", "Z">>

UpperChar(ch) ==
    IF \E k \in 1..Len(LowerCase) : LowerCase[k] = ch
    THEN UpperCase[CHOOSE k \in 1..Len(LowerCase) : LowerCase[k] = ch]
    ELSE ch

\* s.upper()
Upper(s) == [k \in 1..Len(s) |-> UpperChar(s[k])]

RECURSIVE LStrip(_)
LStrip(s) == IF Len(s) > 0 /\ s[1] \in Whitespace THEN LStrip(Tail(s)) ELSE s

RECURSIVE RStrip(_)
RStrip(s) == IF Len(s) > 0 /\ s[Len(s)] \in Whitespace
             THEN RStrip(SubSeq(s, 1, Len(s) - 1)) ELSE s

\* s.strip()
Strip(s) == RStrip(LStrip(s))

\* s.startswith(prefix)
StartsWith(s, prefix) ==
    /\ Len(s) >= Len(prefix)
    /\ SubSeq(s, 1, Len(prefix)) = prefix

IsDigit(ch) == \E k \in 1..10 : Digit[k] = ch
DigitVal(ch) == (CHOOSE k \in 1..10 : Digit[k] = ch) - 1

\* the digits of an int literal after its sign: non-empty, digits with
\* single underscores between them
DigitsOk(d) ==
    /\ Len(d) > 0
    /\ \A k \in 1..Len(d) : IsDigit(d[k]) \/ d[k] = "_"
    /\ d[1] # "_" /\ d[Len(d)] # "_"
    /\ \A k \in 1..(Len(d) - 1) : ~(d[k] = "_" /\ d[k + 1] = "_")

RECURSIVE DigitsVal(_, _)
DigitsVal(d, acc) ==
    IF Len(d) = 0 THEN acc
    ELSE IF d[1] = "_" THEN DigitsVal(Tail(d), acc)
    ELSE DigitsVal(Tail(d), 10 * acc + DigitVal(d[1]))

\* int(s): [ok |-> TRUE, v |-> n], or ok = FALSE where int raises ValueError
ParseInt(s) ==
    LET t == Strip(s)
        signed == Len(t) > 0 /\ t[1] \in {"+", "-"}
        d == IF signed THEN Tail(t) ELSE t
    IN  IF ~DigitsOk(d) THEN [ok |-> FALSE, v |-> 0]
        ELSE [ok |-> TRUE,
              v |-> IF signed /\ t[1] = "-" THEN 0 - DigitsVal(d, 0)
                    ELSE DigitsVal(d, 0)]

(***************************************************************************)
(* The process environment and the inputs of the calls.                    *)
(***************************************************************************)
\* os.getenv of a variable that is not set gives None
None == [set |-> FALSE, val |-> ""]
Some(x) == [set |-> TRUE, val |-> x]

\* values of MYSQL_USER, MYSQL_PASSWORD and MYSQL_DATABASE: unset, empty, set
RequiredSettings == {None, Some(""), Some("u")}

\* values of MYSQL_PORT: unset, integers as int() reads them, and non-integers
PortSettings == {None,
                 Some(<<"3", "3", "0", "7">>),
                 Some(<<" ", "+", "3", "_", "3", "0", "8", "\n">>),
                 Some(<<"a", "b", "c">>),
                 Some(<<>>)}

\* resource paths mysql://{table}
TableArgs == {<<"t">>, <<"x", "y">>}

\* statements given to execute_sql, with what the engine answers when it
\* accepts them: "rows" (a result set), "ok" (an OK packet), "none" (rejected)
Statements ==
    { [sql |-> <<"S", "E", "L", "E", "C", "T", " ", "*", " ", "F", "R", "O", "M", " ", "t">>,
       answer |-> "rows"],
      [sql |-> <<" ", "\t", "s", "e", "L", "e", "c", "t", " ", "*", " ", "f", "r", "o", "m", " ", "t", "\n">>,
       answer |-> "rows"],
      [sql |-> <<"S", "E", "L", "E", "C", "T", " ", "1", " ", "I", "N", "T", "O", " ", "@", "a">>,
       answer |-> "ok"],
      [sql |-> <<"T", "A", "B", "L", "E", " ", "t">>,
       answer |-> "rows"],
      [sql |-> <<"d", "e", "l", "e", "t", "e", " ", "f", "r", "o", "m", " ", "t">>,
       answer |-> "ok"],
      [sql |-> <<"S", "E", "L", "E", "C">>,
       answer |-> "none"] }

Queries == {st.sql : st \in Statements}

Answer(q) == (CHOOSE st \in Statements : st.sql = q).answer

SeqsUpTo(S, n) == UNION {[1..k -> S] : k \in 0..n}

\* the values a column of table t holds
ColumnValues(c) == IF c = "id" THEN {IntV(1), IntV(2)}
                   ELSE {TextV("a"), Null}

ColumnLists == {<<"id">>, <<"id", "name">>, <<"name", "id">>}

RowsOf(cols) == {r \in [1..Len(cols) -> ColumnValues("id") \cup ColumnValues("name")] :
                    \A k \in 1..Len(cols) : r[k] \in ColumnValues(cols[k])}

\* what a cursor holds after a successful execute: description is None
\* (has_result = FALSE) for an OK packet, and rowcount is the engine's count
ResultSets ==
    UNION { { [has_result |-> TRUE, description |-> cols, rows |-> rs,
               rowcount |-> Len(rs)] : rs \in SeqsUpTo(RowsOf(cols), MaxRows) }
            : cols \in ColumnLists }

\* affected-row counts the engine reports, one of them of two digits
AffectedCounts == (0..MaxAffected) \cup {12}

OkPackets ==
    { [has_result |-> FALSE, description |-> <<>>, rows |-> <<>>, rowcount |-> n]
      : n \in AffectedCounts }

TableNames == {"users", "orders"}

\* SHOW TABLES: one row per table, the name in the first column
TableLists ==
    { [has_result |-> TRUE, description |-> <<"Tables_in_db">>,
       rows |-> [k \in 1..Len(ns) |-> <<TextV(ns[k])>>], rowcount |-> Len(ns)]
      : ns \in {s \in SeqsUpTo(TableNames, MaxRows) :
                   \A a, b \in 1..Len(s) : a # b => s[a] # s[b]} }

NoResp == [has_result |-> FALSE, description |-> <<>>, rows |-> <<>>, rowcount |-> 0]

\* messages of the exceptions PyMySQL raises
ConnectError == "(2003, \"Can't connect to MySQL server\")"
ExecuteError == "(1064, 'You have an error in your SQL syntax')"
FetchError == "(2013, 'Lost connection to MySQL server during query')"
CommitError == "(2006, 'MySQL server has gone away')"
AlreadyClosed == "Already closed"
NoneNotIterable == "'NoneType' object is not iterable"

(***************************************************************************)
(* State.                                                                  *)
(***************************************************************************)
VARIABLES
    env,            \* os.environ: the MYSQL_* variables
    calls,          \* number of calls dispatched so far
    pc,             \* position of the handler that is running, "idle" if none
    op,             \* the handler that is running
    arg,            \* its argument: the table or the query
    config,         \* its local config
    conn,           \* its local conn: index into conns, 0 before connect
    cursor,         \* its local name cursor: index into cursors, 0 if unbound
    ctx_cursor,     \* the cursor the inner with statement manages
    sql,            \* the statement given to cursor.execute
    resp,           \* what the cursor holds after execute
    tables,         \* list_resources' local tables
    affected_rows,  \* execute_sql's local affected_rows
    ret,            \* the value of a return statement whose with blocks are being left
    exc,            \* the exception in flight
    outcome,        \* what the caller receives
    conns,          \* every connection opened: who opened it, who used it, close() calls
    cursors,        \* every cursor opened: its connection, close() calls
    log             \* the connector calls of the running handler, in order

vars == <<env, calls, pc, op, arg, config, conn, cursor, ctx_cursor, sql, resp,
          tables, affected_rows, ret, exc, outcome, conns, cursors, log>>

NoExc == [raised |-> FALSE, type |-> "", msg |-> ""]
Raised(type, msg) == [raised |-> TRUE, type |-> type, msg |-> msg]

NoRet == [kind |-> "none", list |-> <<>>, text |-> <<>>]
RetList(l) == [kind |-> "list", list |-> l, text |-> <<>>]
RetText(t) == [kind |-> "text", list |-> <<>>, text |-> t]

NoOutcome == [kind |-> "none", type |-> "", msg |-> "", value |-> NoRet]
Returns(v) == [kind |-> "return", type |-> "", msg |-> "", value |-> v]
Raises(type, msg) == [kind |-> "raise", type |-> type, msg |-> msg, value |-> NoRet]

Event(name, ok) == [ev |-> name, ok |-> ok]

(***************************************************************************)
(* get_db_config.                                                          *)
(***************************************************************************)
getenv(name, default) == IF env[name].set THEN env[name] ELSE default

ConfigKeys == {"host", "port", "user", "password", "database", "charset",
               "collation", "autocommit", "sql_mode"}

\* config.get(key)
Get(cfg, key) == IF key \in DOMAIN cfg THEN cfg[key] ELSE None

\* a check for None only, which takes the empty string for a value
TruthyNotNone(v) == v.set

\* bool(value) of a str or None
Truthy(v) == v.set /\ v.val # ""

MissingConfig == "Missing required database configuration"

\* the value get_db_config returns, or the ValueError it raises
get_db_config ==
    LET port == ParseInt(getenv("MYSQL_PORT", Some(<<"3", "3", "0", "6">>)).val)
        full == [k \in ConfigKeys |->
                    CASE k = "host" -> getenv("MYSQL_HOST", Some("localhost"))
                      [] k = "port" -> Some(port.v)
                      [] k = "user" -> getenv("MYSQL_USER", None)
                      [] k = "password" -> getenv("MYSQL_PASSWORD", None)
                      [] k = "database" -> getenv("MYSQL_DATABASE", None)
                      [] k = "charset" -> getenv("MYSQL_CHARSET", Some("utf8mb4"))
                      [] k = "collation" -> getenv("MYSQL_COLLATION", Some("utf8mb4_unicode_ci"))
                      [] k = "autocommit" -> Some(TRUE)
                      [] OTHER -> getenv("MYSQL_SQL_MODE", Some("TRADITIONAL"))]
        cfg == [k \in {x \in ConfigKeys : full[x].set} |-> full[k]]
    IN  IF ~port.ok
        THEN [ok |-> FALSE, config |-> cfg,
              error |-> "invalid literal for int() with base 10: '"
                        \o Text(env["MYSQL_PORT"].val) \o "'"]
        ELSE IF ~(Truthy(Get(cfg, "user")) /\ Truthy(Get(cfg, "password"))
                  /\ Truthy(Get(cfg, "database")))
        THEN [ok |-> FALSE, config |-> cfg, error |-> MissingConfig]
        ELSE [ok |-> TRUE, config |-> cfg, error |-> ""]

NoConfig == [k \in {} |-> None]

(***************************************************************************)
(* PyMySQL: connections and cursors.                                       *)
(***************************************************************************)
\* pymysql.connect of config succeeded: a new open connection
NewConn == Append(conns, [owner |-> calls, users |-> {calls}, closes |-> 0])

\* conn.cursor(): a new open cursor on connection c
NewCursor(c) == Append(cursors, [conn |-> c, closes |-> 0])

\* Connection.close() raises Error("Already closed") on a closed connection
CloseRaises(c) == conns[c].closes > 0

\* Connection.close(): the call is counted whether or not it raises
CloseConn(c) == [conns EXCEPT ![c].closes = @ + 1, ![c].users = @ \cup {calls}]

\* Cursor.close()
CloseCursor(k) == [cursors EXCEPT ![k].closes = @ + 1]

\* a call on connection c made by the running handler
UseConn(c) == [conns EXCEPT ![c].users = @ \cup {calls}]

(***************************************************************************)
(* Formatting.                                                             *)
(***************************************************************************)
\* the test without strip(): leading whitespace hides the keyword
IsSelectNoStrip(query) == StartsWith(Upper(query), <<"S", "E", "L", "E", "C", "T">>)

\* line 123: query.strip().upper().startswith("SELECT")
IsSelect(query) == StartsWith(Upper(Strip(query)), <<"S", "E", "L", "E", "C", "T">>)

\* the value stringified without the test for None
ToolValueStr(val) == PyStr(val)

\* line 135: str(val) if val is not None else "NULL"
ToolValue(val) == IF val.t # "null" THEN PyStr(val) ELSE "NULL"

\* lines 131-139: the CSV text execute_sql returns for a non-empty result
ToolFormat(columns, rows) ==
    LET header == Join(",", Each(columns))
        line(row) == Join(",", Each([k \in 1..Len(row) |-> ToolValue(row[k])]))
    IN  Join("\n", <<header>> \o [k \in 1..Len(rows) |-> line(rows[k])])

\* the rows joined without the header line in front
ResourceFormatNoHeader(columns, rows) ==
    LET line(row) == Join(",", Each([k \in 1..Len(row) |-> PyStr(row[k])]))
    IN  Join("\n", [k \in 1..Len(rows) |-> line(rows[k])])

\* lines 90-91: the text read_table_resource returns
ResourceFormat(columns, rows) ==
    LET line(row) == Join(",", Each([k \in 1..Len(row) |-> PyStr(row[k])]))
        result == [k \in 1..Len(rows) |-> line(rows[k])]
    IN  Join("\n", <<Join(",", Each(columns))>> \o result)

\* the empty table, header only, in place of the fixed message
NoRowsAsHeader == Join(",", Each(resp.description))

\* line 128
NoRowsMessage == <<"Query executed successfully. No rows returned.">>

\* the message with the number of rows held by the cursor for the count
AffectedMessageFetched(n) ==
    <<"Query executed successfully. ", IntToStr(Len(resp.rows)), " rows affected.">>

\* lines 144-146
AffectedMessage(n) ==
    <<"Query executed successfully. ", IntToStr(n), " rows affected.">>

\* line 87: f"SELECT * FROM {table} LIMIT 100"
TableQuery(table) ==
    <<"S", "E", "L", "E", "C", "T", " ", "*", " ", "F", "R", "O", "M", " ">>
    \o table \o <<" ", "L", "I", "M", "I", "T", " ", "1", "0", "0">>

\* line 63: [row[0] for row in cursor.fetchall()]
FirstColumn(rows) == [k \in 1..Len(rows) |-> rows[k][1].s]

\* the original message raised again without the prefix
DatabaseErrorBare(msg) == msg

\* lines 69, 95, 149: f"Database error: {str(e)}"
DatabaseError(msg) == "Database error: " \o msg

(***************************************************************************)
(* Initial state: the process has started, no call has been dispatched.    *)
(***************************************************************************)
Init ==
    /\ env \in [MYSQL_HOST : {None}, MYSQL_PORT : PortSettings,
                MYSQL_USER : RequiredSettings, MYSQL_PASSWORD : RequiredSettings,
                MYSQL_DATABASE : RequiredSettings, MYSQL_CHARSET : {None},
                MYSQL_COLLATION : {None}, MYSQL_SQL_MODE : {None}]
    /\ calls = 0
    /\ pc = "idle"
    /\ op = "none"
    /\ arg = <<>>
    /\ config = NoConfig
    /\ conn = 0
    /\ cursor = 0
    /\ ctx_cursor = 0
    /\ sql = <<>>
    /\ resp = NoResp
    /\ tables = <<>>
    /\ affected_rows = 0
    /\ ret = NoRet
    /\ exc = NoExc
    /\ outcome = NoOutcome
    /\ conns = <<>>
    /\ cursors = <<>>
    /\ log = <<>>

(***************************************************************************)
(* The protocol runtime dispatches a call.                                  *)
(***************************************************************************)
Dispatch(o, a) ==
    /\ pc = "idle"
    /\ calls < MaxCalls
    /\ calls' = calls + 1
    /\ pc' = "get_db_config"
    /\ op' = o
    /\ arg' = a
    /\ UNCHANGED <<env, config, conn, cursor, ctx_cursor, sql, resp, tables,
                   affected_rows, ret, exc, outcome, conns, cursors, log>>

CallListResources == Dispatch("list_resources", <<>>)
CallReadTableResource == \E table \in TableArgs : Dispatch("read_table_resource", table)
CallExecuteSql == \E query \in Queries : Dispatch("execute_sql", query)

(***************************************************************************)
(* Lines 51, 75, 108: config = get_db_config(), outside the try block, so  *)
(* the ValueError it raises leaves the handler as it is.                   *)
(***************************************************************************)
ResolveConfig ==
    /\ pc = "get_db_config"
    /\ LET r == get_db_config
       IN  IF r.ok
           THEN /\ config' = r.config
                /\ pc' = "connect"
                /\ outcome' = outcome
           ELSE /\ config' = config
                /\ pc' = "done"
                /\ outcome' = Raises("ValueError", r.error)
    /\ UNCHANGED <<env, calls, op, arg, conn, cursor, ctx_cursor, sql, resp, tables,
                   affected_rows, ret, exc, conns, cursors, log>>

(***************************************************************************)
(* Lines 56, 82, 115: with pymysql.connect of config as conn               *)
(***************************************************************************)
Connect ==
    /\ pc = "connect"
    /\ \/ /\ conns' = NewConn
          /\ conn' = Len(conns) + 1
          /\ log' = Append(log, Event("connect", TRUE))
          /\ pc' = "with_cursor"
          /\ exc' = exc
       \/ /\ exc' = Raised("OperationalError", ConnectError)
          /\ log' = Append(log, Event("connect", FALSE))
          /\ pc' = "except"
          /\ UNCHANGED <<conns, conn>>
    /\ UNCHANGED <<env, calls, op, arg, config, cursor, ctx_cursor, sql, resp, tables,
                   affected_rows, ret, outcome, cursors>>

(***************************************************************************)
(* Lines 60, 86, 119: with conn.cursor() as cursor                         *)
(***************************************************************************)
WithCursor ==
    /\ pc = "with_cursor"
    /\ cursors' = NewCursor(conn)
    /\ conns' = UseConn(conn)
    /\ cursor' = Len(cursors) + 1
    /\ ctx_cursor' = Len(cursors) + 1
    /\ log' = Append(log, Event("cursor", TRUE))
    /\ pc' = IF op = "list_resources" THEN "rebind_cursor" ELSE "execute"
    /\ UNCHANGED <<env, calls, op, arg, config, conn, sql, resp, tables,
                   affected_rows, ret, exc, outcome>>

(***************************************************************************)
(* Line 61: cursor = conn.cursor().  The name is bound to a second cursor; *)
(* the with statement keeps managing the first.                            *)
(***************************************************************************)
ListRebindCursor ==
    /\ pc = "rebind_cursor"
    /\ cursors' = NewCursor(conn)
    /\ conns' = UseConn(conn)
    /\ cursor' = Len(cursors) + 1
    /\ log' = Append(log, Event("cursor", TRUE))
    /\ pc' = "execute"
    /\ UNCHANGED <<env, calls, op, arg, config, conn, ctx_cursor, sql, resp, tables,
                   affected_rows, ret, exc, outcome>>

(***************************************************************************)
(* Lines 62, 87, 120: cursor.execute(...)                                  *)
(***************************************************************************)
Statement ==
    CASE op = "list_resources" ->
             <<"S", "H", "O", "W", " ", "T", "A", "B", "L", "E", "S">>
      [] op = "read_table_resource" -> TableQuery(arg)
      [] OTHER -> arg

\* what the engine may answer to the statement when it accepts it
Responses ==
    CASE op = "list_resources" -> TableLists
      [] op = "read_table_resource" -> ResultSets
      [] OTHER -> IF Answer(arg) = "rows" THEN ResultSets
                  ELSE IF Answer(arg) = "ok" THEN OkPackets
                  ELSE {}

Execute ==
    /\ pc = "execute"
    /\ sql' = Statement
    /\ conns' = UseConn(conn)
    /\ \/ /\ \E r \in Responses : resp' = r
          /\ log' = Append(log, Event("execute", TRUE))
          /\ pc' = "body"
          /\ exc' = exc
       \/ /\ exc' = Raised("ProgrammingError", ExecuteError)
          /\ log' = Append(log, Event("execute", FALSE))
          /\ pc' = "exit_cursor"
          /\ resp' = resp
    /\ UNCHANGED <<env, calls, op, arg, config, conn, cursor, ctx_cursor, tables,
                   affected_rows, ret, outcome, cursors>>

(***************************************************************************)
(* list_resources, lines 63-66.                                            *)
(***************************************************************************)
\* line 63: tables = [row[0] for row in cursor.fetchall()]
ListFetch ==
    /\ pc = "body" /\ op = "list_resources"
    /\ conns' = UseConn(conn)
    /\ \/ /\ tables' = FirstColumn(resp.rows)
          /\ log' = Append(log, Event("fetchall", TRUE))
          /\ pc' = "list_close_cursor"
          /\ exc' = exc
       \/ /\ exc' = Raised("OperationalError", FetchError)
          /\ log' = Append(log, Event("fetchall", FALSE))
          /\ pc' = "exit_cursor"
          /\ tables' = tables
    /\ UNCHANGED <<env, calls, op, arg, config, conn, cursor, ctx_cursor, sql, resp,
                   affected_rows, ret, outcome, cursors>>

\* line 64: cursor.close(), on the cursor the name is bound to
ListCloseCursor ==
    /\ pc = "list_close_cursor"
    /\ cursors' = CloseCursor(cursor)
    /\ log' = Append(log, Event("cursor.close", TRUE))
    /\ pc' = "list_close_conn"
    /\ UNCHANGED <<env, calls, op, arg, config, conn, cursor, ctx_cursor, sql, resp,
                   tables, affected_rows, ret, exc, outcome, conns>>

\* line 65: conn.close()
ListCloseConn ==
    /\ pc = "list_close_conn"
    /\ conns' = CloseConn(conn)
    /\ log' = Append(log, Event("conn.close", ~CloseRaises(conn)))
    /\ IF CloseRaises(conn)
       THEN /\ exc' = Raised("Error", AlreadyClosed)
            /\ pc' = "exit_cursor"
       ELSE /\ exc' = exc
            /\ pc' = "list_return"
    /\ UNCHANGED <<env, calls, op, arg, config, conn, cursor, ctx_cursor, sql, resp,
                   tables, affected_rows, ret, outcome, cursors>>

\* line 66: return tables, which leaves both with blocks
ListReturn ==
    /\ pc = "list_return"
    /\ ret' = RetList(tables)
    /\ pc' = "exit_cursor"
    /\ UNCHANGED <<env, calls, op, arg, config, conn, cursor, ctx_cursor, sql, resp,
                   tables, affected_rows, exc, outcome, conns, cursors, log>>

(***************************************************************************)
(* read_table_resource, lines 88-91.                                       *)
(***************************************************************************)
ReadTableBody ==
    /\ pc = "body" /\ op = "read_table_resource"
    /\ conns' = UseConn(conn)
    /\ pc' = "exit_cursor"
    /\ \/ /\ ret' = RetText(ResourceFormat(resp.description, resp.rows))
          /\ log' = Append(log, Event("fetchall", TRUE))
          /\ exc' = exc
       \/ /\ exc' = Raised("OperationalError", FetchError)
          /\ log' = Append(log, Event("fetchall", FALSE))
          /\ ret' = ret
    /\ UNCHANGED <<env, calls, op, arg, config, conn, cursor, ctx_cursor, sql, resp,
                   tables, affected_rows, outcome, cursors>>

(***************************************************************************)
(* execute_sql, lines 123-146.                                             *)
(***************************************************************************)
\* lines 123-139: the SELECT branch
ExecSelect ==
    /\ pc = "body" /\ op = "execute_sql"
    /\ IsSelect(arg)
    /\ pc' = "exit_cursor"
    /\ IF ~resp.has_result
       THEN \* line 124 iterates over cursor.description, which is None
            /\ exc' = Raised("TypeError", NoneNotIterable)
            /\ UNCHANGED <<ret, log, conns>>
       ELSE /\ conns' = UseConn(conn)
            /\ \/ /\ ret' = IF Len(resp.rows) = 0
                           THEN RetText(NoRowsMessage)
                           ELSE RetText(ToolFormat(resp.description, resp.rows))
                  /\ log' = Append(log, Event("fetchall", TRUE))
                  /\ exc' = exc
               \/ /\ exc' = Raised("OperationalError", FetchError)
                  /\ log' = Append(log, Event("fetchall", FALSE))
                  /\ ret' = ret
    /\ UNCHANGED <<env, calls, op, arg, config, conn, cursor, ctx_cursor, sql, resp,
                   tables, affected_rows, outcome, cursors>>

\* line 142: affected_rows = cursor.rowcount
ExecRowcount ==
    /\ pc = "body" /\ op = "execute_sql"
    /\ ~IsSelect(arg)
    /\ affected_rows' = resp.rowcount
    /\ log' = Append(log, Event("rowcount", TRUE))
    /\ pc' = "commit"
    /\ UNCHANGED <<env, calls, op, arg, config, conn, cursor, ctx_cursor, sql, resp,
                   tables, ret, exc, outcome, conns, cursors>>

\* lines 143-146: conn.commit() and the return
ExecCommit ==
    /\ pc = "commit"
    /\ conns' = UseConn(conn)
    /\ pc' = "exit_cursor"
    /\ \/ /\ ret' = RetText(AffectedMessage(affected_rows))
          /\ log' = Append(log, Event("commit", TRUE))
          /\ exc' = exc
       \/ /\ exc' = Raised("OperationalError", CommitError)
          /\ log' = Append(log, Event("commit", FALSE))
          /\ ret' = ret
    /\ UNCHANGED <<env, calls, op, arg, config, conn, cursor, ctx_cursor, sql, resp,
                   tables, affected_rows, outcome, cursors>>

(***************************************************************************)
(* Leaving the with blocks, by return or by exception.                     *)
(***************************************************************************)
\* Cursor.__exit__ closes the cursor the inner with statement manages
ExitCursor ==
    /\ pc = "exit_cursor"
    /\ cursors' = CloseCursor(ctx_cursor)
    /\ log' = Append(log, Event("cursor.close", TRUE))
    /\ pc' = "exit_conn"
    /\ UNCHANGED <<env, calls, op, arg, config, conn, cursor, ctx_cursor, sql, resp,
                   tables, affected_rows, ret, exc, outcome, conns>>

\* Connection.__exit__ calls self.close(); an exception it raises replaces
\* the return value or the exception that was leaving the block
ExitConn ==
    /\ pc = "exit_conn"
    /\ conns' = CloseConn(conn)
    /\ log' = Append(log, Event("conn.close", ~CloseRaises(conn)))
    /\ IF CloseRaises(conn)
       THEN /\ exc' = Raised("Error", AlreadyClosed)
            /\ ret' = NoRet
            /\ pc' = "except"
            /\ outcome' = outcome
       ELSE /\ exc' = exc
            /\ ret' = ret
            /\ pc' = IF exc.raised THEN "except" ELSE "done"
            /\ outcome' = IF exc.raised THEN outcome ELSE Returns(ret)
    /\ UNCHANGED <<env, calls, op, arg, config, conn, cursor, ctx_cursor, sql, resp,
                   tables, affected_rows, cursors>>

(***************************************************************************)
(* Lines 67-69, 93-95, 147-149: except Exception as e: raise RuntimeError  *)
(***************************************************************************)
Except ==
    /\ pc = "except"
    /\ outcome' = Raises("RuntimeError", DatabaseError(exc.msg))
    /\ pc' = "done"
    /\ UNCHANGED <<env, calls, op, arg, config, conn, cursor, ctx_cursor, sql, resp,
                   tables, affected_rows, ret, exc, conns, cursors, log>>

(***************************************************************************)
(* The caller has its answer; the handler's frame is discarded.            *)
(***************************************************************************)
Finish ==
    /\ pc = "done"
    /\ pc' = "idle"
    /\ op' = "none"
    /\ arg' = <<>>
    /\ config' = NoConfig
    /\ conn' = 0
    /\ cursor' = 0
    /\ ctx_cursor' = 0
    /\ sql' = <<>>
    /\ resp' = NoResp
    /\ tables' = <<>>
    /\ affected_rows' = 0
    /\ ret' = NoRet
    /\ exc' = NoExc
    /\ outcome' = NoOutcome
    /\ log' = <<>>
    /\ UNCHANGED <<env, calls, conns, cursors>>

Next ==
    \/ CallListResources
    \/ CallReadTableResource
    \/ CallExecuteSql
    \/ ResolveConfig
    \/ Connect
    \/ WithCursor
    \/ ListRebindCursor
    \/ Execute
    \/ ListFetch
    \/ ListCloseCursor
    \/ ListCloseConn
    \/ ListReturn
    \/ ReadTableBody
    \/ ExecSelect
    \/ ExecRowcount
    \/ ExecCommit
    \/ ExitCursor
    \/ ExitConn
    \/ Except
    \/ Finish

Spec == Init /\ [][Next]_vars

(***************************************************************************)
(* Vocabulary of the properties.                                           *)
(***************************************************************************)
\* text.split(sep), on fragments
RECURSIVE Split(_, _)
Split(frags, sep) ==
    IF \A k \in 1..Len(frags) : frags[k] # sep THEN <<frags>>
    ELSE LET k == CHOOSE j \in 1..Len(frags) :
                      frags[j] = sep /\ \A m \in 1..(j - 1) : frags[m] # sep
         IN  <<SubSeq(frags, 1, k - 1)>> \o Split(SubSeq(frags, k + 1, Len(frags)), sep)

Lines(frags) == Split(frags, "\n")
Fields(line) == Split(line, ",")

\* a statement is read when its stripped, upper-cased text starts with SELECT
ClassifiedRead(statement) ==
    LET t == Upper(Strip(statement))
    IN  Len(t) >= 6 /\ t[1] = "S" /\ t[2] = "E" /\ t[3] = "L" /\ t[4] = "E"
        /\ t[5] = "C" /\ t[6] = "T"

\* the connector calls of the running handler named name
Positions(name) == {k \in 1..Len(log) : log[k].ev = name}
Succeeded(name) == \E k \in Positions(name) : log[k].ok
Failed(name) == \E k \in Positions(name) : ~log[k].ok

RequiredMissing ==
    \E v \in {"MYSQL_USER", "MYSQL_PASSWORD", "MYSQL_DATABASE"} :
        ~env[v].set \/ env[v].val = ""

PortIsInteger == ~env["MYSQL_PORT"].set \/ ParseInt(env["MYSQL_PORT"].val).ok

\* a value as a result line shows it, a null as nullToken
Rendered(val, nullToken) ==
    CASE val.t = "null" -> <<nullToken>>
      [] val.t = "int" -> <<IntToStr(val.i)>>
      [] OTHER -> <<val.s>>

\* line is the comma-joined text of row, nulls shown as nullToken
LineShows(line, row, nullToken) ==
    /\ Len(Fields(line)) = Len(row)
    /\ \A k \in 1..Len(row) : Fields(line)[k] = Rendered(row[k], nullToken)

\* line is the comma-joined column names, in their order
HeaderShows(line, columns) ==
    /\ Len(Fields(line)) = Len(columns)
    /\ \A k \in 1..Len(columns) : Fields(line)[k] = <<columns[k]>>

ReturnedText == outcome.kind = "return" /\ outcome.value.kind = "text"

(***************************************************************************)
(* C1.  Error normalization.                                               *)
(***************************************************************************)
NormalizedError(original) ==
    [kind |-> "raise", type |-> "RuntimeError",
     msg |-> "Database error: " \o original, value |-> NoRet]

\* C1 as stated: whatever fails during a call (required configuration
\* missing, MYSQL_PORT not an integer, connect, execute, fetch or commit
\* failure), the caller receives the error "Database error: " followed by the
\* original message, and no result.
C1_EveryFailureNormalized ==
    pc = "done" =>
        /\ (~PortIsInteger \/ RequiredMissing) =>
               /\ outcome.kind = "raise" /\ outcome.type = "RuntimeError"
               /\ outcome.value = NoRet
               /\ (PortIsInteger =>
                       outcome = NormalizedError("Missing required database configuration"))
        /\ Failed("connect") => outcome = NormalizedError(ConnectError)
        /\ Failed("execute") => outcome = NormalizedError(ExecuteError)
        /\ Failed("fetchall") => outcome = NormalizedError(FetchError)
        /\ Failed("commit") => outcome = NormalizedError(CommitError)

\* C1 amended: a connect, execute, fetch or commit failure reaches the caller
\* as the RuntimeError "Database error: " followed by the original message,
\* with no result; a failure of get_db_config (required configuration
\* missing, MYSQL_PORT not an integer) reaches the caller as the ValueError
\* get_db_config raised, without the prefix, and with no result either.
C1_FailuresAfterConfigNormalized ==
    pc = "done" =>
        /\ (~PortIsInteger \/ RequiredMissing) =>
               /\ outcome.kind = "raise" /\ outcome.type = "ValueError"
               /\ outcome.value = NoRet
               /\ (PortIsInteger =>
                       outcome.msg = "Missing required database configuration")
        /\ Failed("connect") => outcome = NormalizedError(ConnectError)
        /\ Failed("execute") => outcome = NormalizedError(ExecuteError)
        /\ Failed("fetchall") => outcome = NormalizedError(FetchError)
        /\ Failed("commit") => outcome = NormalizedError(CommitError)

\* a write statement whose commit failed after its execute succeeded
C1_Witness ==
    /\ pc = "done" /\ op = "execute_sql"
    /\ Succeeded("execute") /\ Failed("commit")
    /\ outcome.kind = "raise"

(***************************************************************************)
(* C2.  Incomplete configuration.                                          *)
(***************************************************************************)
\* C2 as stated: when MYSQL_USER, MYSQL_PASSWORD or MYSQL_DATABASE is unset
\* or empty, get_db_config fails with the configuration error and no call
\* ever invokes connect.
C2_MissingConfigError ==
    RequiredMissing =>
        /\ conns = <<>> /\ cursors = <<>> /\ log = <<>>
        /\ pc = "done" =>
               outcome = [kind |-> "raise", type |-> "ValueError",
                          msg |-> "Missing required database configuration",
                          value |-> NoRet]

\* C2 amended: in such an environment get_db_config raises ValueError, which
\* is the configuration error "Missing required database configuration"
\* when MYSQL_PORT is unset or an integer and int's own ValueError otherwise,
\* and no call ever invokes connect, opens a cursor or executes a statement.
C2_MissingConfigNeverConnects ==
    RequiredMissing =>
        /\ conns = <<>> /\ cursors = <<>> /\ log = <<>>
        /\ pc \in {"idle", "get_db_config", "done"}
        /\ pc = "done" =>
               /\ outcome.kind = "raise" /\ outcome.type = "ValueError"
               /\ outcome.value = NoRet
               /\ (PortIsInteger =>
                       outcome.msg = "Missing required database configuration")
               /\ (~PortIsInteger =>
                       outcome.msg # "Missing required database configuration")

\* a call that ended in an environment whose password is the empty string
C2_Witness ==
    /\ pc = "done" /\ op = "read_table_resource"
    /\ env["MYSQL_USER"] = Some("u")
    /\ env["MYSQL_PASSWORD"] = Some("")
    /\ env["MYSQL_DATABASE"] = Some("u")
    /\ PortIsInteger
    /\ outcome.kind = "raise"

(***************************************************************************)
(* C3.  Scoped connections.                                                *)
(***************************************************************************)
\* C3 as stated: a call whose configuration resolved invokes connect exactly
\* once, its connection is used by no other call, and when no call is running
\* (or the running one has its answer) every connection and every cursor
\* opened so far is closed.
C3_ConnectionsScoped ==
    /\ \A c \in 1..Len(conns) : conns[c].users = {conns[c].owner}
    /\ (pc = "done" /\ outcome.type # "ValueError") =>
           Cardinality(Positions("connect")) = 1
    /\ pc \in {"idle", "done"} =>
           /\ \A c \in 1..Len(conns) : conns[c].closes >= 1
           /\ \A k \in 1..Len(cursors) : cursors[k].closes >= 1

(***************************************************************************)
(* C4.  list_resources.                                                    *)
(***************************************************************************)
\* C4 as stated: when the configuration is complete and connect, execute and
\* fetch succeed, list_resources returns the table names the engine reported
\* for SHOW TABLES, one string per row, in the engine's order.
C4_ListReturnsTableNames ==
    (/\ pc = "done" /\ op = "list_resources"
     /\ Succeeded("connect") /\ Succeeded("execute") /\ Succeeded("fetchall")) =>
        /\ outcome.kind = "return" /\ outcome.value.kind = "list"
        /\ Len(outcome.value.list) = Len(resp.rows)
        /\ \A k \in 1..Len(resp.rows) : outcome.value.list[k] = resp.rows[k][1].s

(***************************************************************************)
(* C5.  Shape of the text returned for a read statement.                   *)
(***************************************************************************)
ShapedAsTable ==
    /\ ReturnedText
    /\ Len(Lines(outcome.value.text)) = Len(resp.rows) + 1
    /\ HeaderShows(Lines(outcome.value.text)[1], resp.description)

\* C5 as stated: a read statement that returns N rows and C columns, N >= 0,
\* gives a text of N+1 lines whose first line is the C column names joined by
\* commas, through execute_sql and through read_table_resource.
C5_ReadGivesHeaderAndRows ==
    (/\ pc = "done" /\ op \in {"execute_sql", "read_table_resource"}
     /\ ClassifiedRead(sql) /\ Succeeded("fetchall")) => ShapedAsTable

\* C5 amended: the text has N+1 lines and the column names as its first line
\* for every N >= 0 through read_table_resource (whose statement is always a
\* read) and for every N >= 1 through execute_sql.
C5_ReadGivesHeaderAndRowsWhenNonEmpty ==
    /\ (pc = "done" /\ op = "read_table_resource" /\ Succeeded("fetchall")) =>
           ClassifiedRead(sql) /\ ShapedAsTable
    /\ (/\ pc = "done" /\ op = "execute_sql"
        /\ ClassifiedRead(sql) /\ Succeeded("fetchall") /\ Len(resp.rows) >= 1) =>
           ShapedAsTable

\* a table of two columns read with as many rows as the engine may return
C5_Witness ==
    /\ pc = "done" /\ op = "read_table_resource"
    /\ Len(resp.description) = 2 /\ Len(resp.rows) = MaxRows
    /\ ReturnedText

(***************************************************************************)
(* C6.  Zero rows.                                                         *)
(***************************************************************************)
\* C6: a read statement with zero rows gives, through execute_sql, exactly
\* 'Query executed successfully. No rows returned.', and through
\* read_table_resource exactly one line, the comma-joined column names.
C6_ZeroRows ==
    (pc = "done" /\ Succeeded("fetchall") /\ Len(resp.rows) = 0) =>
        /\ (op = "execute_sql" /\ ClassifiedRead(arg)) =>
               /\ ReturnedText
               /\ Text(outcome.value.text)
                      = "Query executed successfully. No rows returned."
        /\ op = "read_table_resource" =>
               /\ ReturnedText
               /\ \A k \in 1..Len(outcome.value.text) : outcome.value.text[k] # "\n"
               /\ HeaderShows(outcome.value.text, resp.description)
               /\ (resp.description = <<"id", "name">> =>
                       Text(outcome.value.text) = "id,name")

\* a lower-case select with surrounding whitespace that found no row
C6_Witness ==
    /\ pc = "done" /\ op = "execute_sql"
    /\ ClassifiedRead(arg) /\ arg[1] = " "
    /\ Succeeded("fetchall") /\ Len(resp.rows) = 0
    /\ ReturnedText

(***************************************************************************)
(* C7.  Write statements.                                                  *)
(***************************************************************************)
\* C7: a statement not classified as read that executes and commits gives
\* exactly 'Query executed successfully. {affected} rows affected.' with the
\* row count the engine reported, and execute_sql never returns rows for it.
C7_WriteGivesAffectedCount ==
    /\ (/\ pc = "done" /\ op = "execute_sql" /\ ~ClassifiedRead(arg)
        /\ Succeeded("execute") /\ Succeeded("commit")) =>
           /\ ReturnedText
           /\ Text(outcome.value.text)
                  = "Query executed successfully. " \o IntToStr(resp.rowcount)
                    \o " rows affected."
           /\ (resp.rowcount = 1 =>
                   Text(outcome.value.text)
                       = "Query executed successfully. 1 rows affected.")
    /\ (/\ pc = "done" /\ op = "execute_sql" /\ ~ClassifiedRead(arg)
        /\ outcome.kind = "return") =>
           /\ Succeeded("commit")
           /\ outcome.value.kind = "text"
           /\ Len(outcome.value.text) = 3
           /\ \A k \in 1..3 : outcome.value.text[k] \notin {",", "\n"}

\* a delete that affected as many rows as the engine may report
C7_Witness ==
    /\ pc = "done" /\ op = "execute_sql" /\ ~ClassifiedRead(arg)
    /\ ~resp.has_result /\ resp.rowcount = MaxAffected
    /\ Succeeded("commit") /\ ReturnedText

(***************************************************************************)
(* C8.  Rows and nulls.                                                    *)
(***************************************************************************)
RowsShown(nullToken) ==
    /\ ReturnedText
    /\ Len(Lines(outcome.value.text)) = Len(resp.rows) + 1
    /\ \A k \in 1..Len(resp.rows) :
           LineShows(Lines(outcome.value.text)[k + 1], resp.rows[k], nullToken)

ExampleRows ==
    /\ resp.description = <<"id", "name">>
    /\ resp.rows = << <<IntV(1), TextV("a")>>, <<IntV(2), Null>> >>

\* C8: for a non-empty result execute_sql gives, after the header, one line
\* per row in row order, the values in column order joined by commas, a null
\* as 'NULL' and any other value as its text; read_table_resource joins the
\* same way but shows a null as 'None'.
C8_RowsAndNulls ==
    (pc = "done" /\ Succeeded("fetchall") /\ Len(resp.rows) >= 1) =>
        /\ (op = "execute_sql" /\ ClassifiedRead(arg)) =>
               /\ RowsShown("NULL")
               /\ (ExampleRows =>
                       Text(outcome.value.text) = "id,name\n1,a\n2,NULL")
        /\ op = "read_table_resource" =>
               /\ RowsShown("None")
               /\ (ExampleRows =>
                       Text(outcome.value.text) = "id,name\n1,a\n2,None")

\* SELECT id,name with rows (1,'a'), (2,NULL) through execute_sql
C8_Witness ==
    /\ pc = "done" /\ op = "execute_sql" /\ ClassifiedRead(arg)
    /\ ExampleRows
    /\ ReturnedText

(***************************************************************************)
(* C9.  The commit.                                                        *)
(***************************************************************************)
\* C9: execute_sql invokes commit exactly once when the statement is a write
\* and its execute succeeded, after execute and after the affected-row count
\* is read and before the connection is closed; commit is never invoked for
\* a read statement, after a failed execute, or by the two resource handlers.
C9_CommitOnceForWrites ==
    /\ Cardinality(Positions("commit")) <= 1
    /\ \A c \in Positions("commit") :
           /\ op = "execute_sql" /\ ~ClassifiedRead(arg)
           /\ \E e \in Positions("execute"), r \in Positions("rowcount") :
                  log[e].ok /\ e < r /\ r < c
           /\ \A x \in Positions("conn.close") : c < x
    /\ (/\ pc = "done" /\ op = "execute_sql" /\ ~ClassifiedRead(arg)
        /\ Succeeded("execute")) =>
           /\ Cardinality(Positions("commit")) = 1
           /\ Positions("conn.close") # {}

\* a statement with a result set that is not classified read, and committed
C9_Witness ==
    /\ pc = "done" /\ op = "execute_sql"
    /\ resp.has_result
    /\ Positions("commit") # {}
    /\ outcome.kind = "return"

(***************************************************************************)
(* C10.  No second close.                                                  *)
(***************************************************************************)
\* C10 as stated: no connection and no cursor has close invoked on it
\* more than once, the close of the with blocks included.
C10_ClosedAtMostOnce ==
    /\ \A c \in 1..Len(conns) : conns[c].closes <= 1
    /\ \A k \in 1..Len(cursors) : cursors[k].closes <= 1

====
